---------------------------- MODULE Spec2Model ----------------------------
(***************************************************************************)
(* Model of the application access-configuration panel                     *)
(* (apps/console/.../settings/access-configuration.tsx): the computation   *)
(* of the supported protocol list, the render of the panel, its effects,   *)
(* its handlers and the backend requests they issue; of the field adapters *)
(* of the form module; and of the Facebook authenticator form              *)
(* (apps/console/.../authenticators/facebook-authenticator-form.tsx).      *)
(***************************************************************************)
EXTENDS Integers, Sequences, FiniteSets, TLC

(***************************************************************************)
(* Bounds of the model.                                                    *)
(***************************************************************************)
\* Longest list of configured inbound protocols the parent passes.
MaxInbound == 2
\* Number of backend requests one behaviour issues.
MaxRequests == 2
\* Longest property list the authenticator form is given.
MaxProperties == 2
\* Longest scope string, in symbols (a space or a word).
MaxScopeLen == 3

(***************************************************************************)
(* Values.                                                                 *)
(***************************************************************************)
\* JavaScript's undefined, for a string-valued slot.
Undefined == "undefined"
\* JavaScript's undefined, for a list-valued slot (useState<string[]>(undefined)).
UndefinedList == << "undefined" >>

OIDC == "oidc"
SAML == "saml"
WS_FEDERATION == "passive-sts"
WS_TRUST == "ws-trust"
CUSTOM == "custom"

\* The members of the enum SupportedAuthProtocolTypes.
SupportedAuthProtocolTypes == { OIDC, SAML, WS_FEDERATION, WS_TRUST, CUSTOM }

\* Object.values(SupportedAuthProtocolMetaTypes).
SupportedAuthProtocolMetaTypes == << OIDC, SAML, WS_TRUST >>

\* Orders in which Object.values(SupportedAuthProtocolTypes) may list the
\* members: the declaration order of the enum, which the panel does not fix.
EnumOrders ==
    { << SAML, OIDC, WS_FEDERATION, WS_TRUST, CUSTOM >>,
      << OIDC, SAML, WS_TRUST, WS_FEDERATION, CUSTOM >>,
      << CUSTOM, WS_TRUST, WS_FEDERATION, SAML, OIDC >> }

\* A protocol name outside the enum (a custom inbound authenticator).
OtherProtocol == "my-custom-protocol"
ProtocolNames == SupportedAuthProtocolTypes \cup { OtherProtocol }

\* CustomApplicationTemplate.id, and the id of any other template.
CustomApplicationTemplateId == "custom-application"
OtherTemplateId == "other-template"

\* The template prop: absent, or a template with an id and an optional
\* authenticationProtocol.
NoTemplate == [ defined |-> FALSE, id |-> Undefined, authenticationProtocol |-> Undefined ]
Templates ==
    { NoTemplate } \cup
    [ defined : { TRUE },
      id : { CustomApplicationTemplateId, OtherTemplateId },
      authenticationProtocol : ProtocolNames \cup { Undefined } ]

\* Values of applicationConfig.customApplication.allowedProtocolTypes.
AllowedProtocolTypeLists == SUBSET { OIDC, SAML, WS_FEDERATION, WS_TRUST }

\* Duplicate-free lists of protocol names of at most n entries.
InboundLists(n) ==
    { s \in UNION { [ 1..k -> ProtocolNames ] : k \in 0..n } :
        \A i, j \in 1..Len(s) : i # j => s[i] # s[j] }

VARIABLES
    \* props and configuration
    enumOrder, template, extendedAccessConfig, allowedProtocolTypes,
    inboundProtocols, isLoading, isInboundProtocolConfigRequestLoading,
    allowMultipleProtocol, optionalCallbacks,
    \* component state (useState)
    pc, selectedProtocol, inboundProtocolList, supportedProtocolList,
    showDeleteConfirmationModal, showProtocolSwitchModal, protocolToDelete,
    requestLoading,
    \* redux store
    authProtocolMeta,
    \* backend requests in flight, and the next request's number
    pending, nextId,
    \* history of the run
    failedCalls, counters, submits, lastStep,
    \* the props a field adapter is rendered with
    field,
    \* the Facebook authenticator form: props, hooks and form values
    form

props == << enumOrder, template, extendedAccessConfig, allowedProtocolTypes,
            allowMultipleProtocol, optionalCallbacks >>
vars == << enumOrder, template, extendedAccessConfig, allowedProtocolTypes,
           inboundProtocols, isLoading, isInboundProtocolConfigRequestLoading,
           allowMultipleProtocol, optionalCallbacks,
           pc, selectedProtocol, inboundProtocolList, supportedProtocolList,
           showDeleteConfirmationModal, showProtocolSwitchModal, protocolToDelete,
           requestLoading, authProtocolMeta, pending, nextId,
           failedCalls, counters, submits, lastStep, field, form >>

\* The components other than the panel.
otherComponents == << field, form >>
\* The field adapters and the authenticator form are not rendered.
NotRendered == "not rendered"
OthersNotRendered ==
    /\ field = NotRendered
    /\ form = NotRendered

(***************************************************************************)
(* Pure helpers.                                                           *)
(***************************************************************************)
Range(s) == { s[i] : i \in 1..Len(s) }

RECURSIVE FilterSeq(_, _)
\* Array.prototype.filter with the set `keep` as the predicate.
FilterSeq(s, keep) ==
    IF s = << >> THEN << >>
    ELSE IF Head(s) \in keep THEN << Head(s) >> \o FilterSeq(Tail(s), keep)
    ELSE FilterSeq(Tail(s), keep)

\* A sort key that is undefined (customOrder[element] of a missing property).
UndefinedKey == -1

\* lodash compareAscending on numbers and undefined: undefined sorts last.
KeyLess(a, b) ==
    /\ a # UndefinedKey
    /\ (b = UndefinedKey \/ a < b)

\* lodash sortBy: ascending by key, stable (ties keep the list's order).
\* `key` maps each element to its sort key.
sortBy(s, key) ==
    LET n == Len(s)
        Before(i, j) == \/ KeyLess(key[s[i]], key[s[j]])
                        \/ (key[s[i]] = key[s[j]] /\ i < j)
        rank(i) == Cardinality({ j \in 1..n : Before(j, i) })
    IN  [ k \in 1..n |-> s[CHOOSE i \in 1..n : rank(i) = k - 1] ]

(***************************************************************************)
(* getSupportedProtocols and loadSupportedProtocols.                       *)
(***************************************************************************)
\* The candidates before the filter: the template's protocol, or every
\* member of the enum.
candidateProtocols ==
    IF template.defined /\ template.authenticationProtocol # Undefined
    THEN << template.authenticationProtocol >>
    ELSE enumOrder

\* The filter callback of getSupportedProtocols: whether `protocol` is kept.
filterCallback(protocol, filterProtocol) ==
    IF /\ template.id = CustomApplicationTemplateId
       /\ allowedProtocolTypes # {}
    THEN protocol \in allowedProtocolTypes
    ELSE ~ \/ protocol = WS_TRUST
           \/ protocol = CUSTOM
           \/ (extendedAccessConfig /\ protocol = WS_FEDERATION)
           \/ (filterProtocol # Undefined /\ protocol = filterProtocol)

\* getSupportedProtocols(filterProtocol): the list returned, or threw = TRUE
\* when the filter callback reads template.id of an absent template.
getSupportedProtocols(filterProtocol) ==
    IF ~ template.defined /\ candidateProtocols # << >>
    THEN [ threw |-> TRUE, list |-> << >> ]
    ELSE [ threw |-> FALSE,
           list |-> FilterSeq(candidateProtocols,
                       { p \in Range(candidateProtocols) :
                           filterCallback(p, filterProtocol) }) ]

\* defaultCustomOrder with the ranks of OIDC and SAML exchanged.
defaultCustomOrder_swapped ==
    [ p \in ProtocolNames |->
        IF p = OIDC THEN 1 ELSE IF p = SAML THEN 0 ELSE UndefinedKey ]

\* The customOrder object before the configured protocols are applied.
defaultCustomOrder ==
    [ p \in ProtocolNames |->
        IF p = OIDC THEN 0 ELSE IF p = SAML THEN 1 ELSE UndefinedKey ]

\* customOrderAfter without the forEach over the configured protocols.
customOrderAfter_ignoringInbound(inbound, n) == defaultCustomOrder

RECURSIVE customOrderAfter(_, _)
\* customOrder after the forEach has visited the first n entries of inbound.
customOrderAfter(inbound, n) ==
    IF n = 0 THEN defaultCustomOrder
    ELSE LET prev == customOrderAfter(inbound, n - 1)
             protocol == inbound[n]
         IN  IF protocol \in SupportedAuthProtocolTypes
             THEN [ prev EXCEPT ![protocol] = n - 1 ]
             ELSE prev

\* The customOrder object the sortBy iteratee reads.
customOrder(inbound) == customOrderAfter(inbound, Len(inbound))

\* The local supportedProtocols of loadSupportedProtocols after the sort.
sortedSupportedProtocols(inbound) ==
    sortBy(getSupportedProtocols(Undefined).list, customOrder(inbound))

\* loadSupportedProtocols: the state it leaves, from the state `sel`, `spl`.
loadSupportedProtocols(sel, spl, inbound) ==
    LET supportedProtocols == sortedSupportedProtocols(inbound)
    IN  [ selectedProtocol |->
              IF sel # Undefined THEN sel
              ELSE IF supportedProtocols = << >> THEN Undefined
              ELSE supportedProtocols[1],
          supportedProtocolList |->
              IF spl = UndefinedList THEN supportedProtocols ELSE spl ]

(***************************************************************************)
(* Render.                                                                 *)
(***************************************************************************)
\* What the component's return expression renders in the given state:
\* "loader", "landing", "grid", or "throw" when getSupportedProtocols throws.
view(sel, inbound, reqLoading, loading, configLoading) ==
    IF loading \/ reqLoading \/ configLoading THEN "loader"
    ELSE IF sel = Undefined /\ Len(inbound) = 0 /\ ~ allowMultipleProtocol
    THEN ( IF getSupportedProtocols(Undefined).threw THEN "throw"
           ELSE IF Len(getSupportedProtocols(Undefined).list) # 1 THEN "landing"
           ELSE "grid" )
    ELSE IF getSupportedProtocols(Undefined).threw THEN "throw" ELSE "grid"

\* The component state once React has rendered (and re-rendered after the
\* state updates loadSupportedProtocols makes during render).
render(sel, spl, inbound, reqLoading, loading, configLoading) ==
    LET v == view(sel, inbound, reqLoading, loading, configLoading)
    IN  IF v = "grid"
        THEN [ pc |-> "mounted" ] @@ loadSupportedProtocols(sel, spl, inbound)
        ELSE [ pc |-> IF v = "throw" THEN "crashed" ELSE "mounted",
               selectedProtocol |-> sel,
               supportedProtocolList |-> spl ]

\* What is on screen in the current state.
currentView ==
    IF pc # "mounted" THEN pc
    ELSE view(selectedProtocol, inboundProtocols, requestLoading, isLoading,
              isInboundProtocolConfigRequestLoading)

(***************************************************************************)
(* Alerts and the promise handlers of the backend calls.                   *)
(***************************************************************************)
\* t(key): the localized string of an i18n key, named by its key.
t(key) == key

\* error.response.data.description of a rejected call: absent, or a
\* description sent by the backend.
ErrorDescriptions == { Undefined, "backend said: conflict" }

\* JavaScript truthiness of a description.
Truthy(description) == description \notin { Undefined, "" }

SuccessAlert(description) == [ level |-> "SUCCESS", description |-> description ]
ErrorAlert(description) == [ level |-> "ERROR", description |-> description ]

\* What running a call's handlers did: the alerts dispatched in order, the
\* number of onUpdate(appId) and onProtocolUpdate() calls, and whether an
\* exception left the promise chain unhandled.
Ran(alerts, onUpdate, onProtocolUpdate) ==
    [ alerts |-> alerts, onUpdate |-> onUpdate,
      onProtocolUpdate |-> onProtocolUpdate, escaped |-> FALSE ]

\* handleInboundConfigDelete whose then handler dispatches no alert.
handleInboundConfigDelete_silent(ok, description) ==
    IF ok
    THEN Ran(<< >>, 1, 0)
    ELSE IF Truthy(description)
    THEN Ran(<< ErrorAlert(description) >>, 0, 0)
    ELSE Ran(<< ErrorAlert(t("deleteProtocolConfig.genericError.description")) >>, 0, 0)

\* handleInboundConfigDelete: the then and catch handlers of deleteProtocol.
handleInboundConfigDelete(ok, description) ==
    IF ok
    THEN Ran(<< SuccessAlert(t("deleteProtocolConfig.success.description")) >>, 1, 0)
    ELSE IF Truthy(description)
    THEN Ran(<< ErrorAlert(description) >>, 0, 0)
    ELSE Ran(<< ErrorAlert(t("deleteProtocolConfig.genericError.description")) >>, 0, 0)

\* handleInboundConfigSwitch whose then and catch handlers both call onUpdate.
handleInboundConfigSwitch_refreshAlways(ok, description) ==
    IF ok
    THEN Ran(<< >>, 1, 0)
    ELSE IF Truthy(description)
    THEN Ran(<< ErrorAlert(description) >>, 1, 0)
    ELSE Ran(<< ErrorAlert(t("deleteProtocolConfig.genericError.description")) >>, 1, 0)

\* handleInboundConfigSwitch: the then and catch handlers of deleteProtocol
\* (the finally handler's state updates are in the action Settle).
handleInboundConfigSwitch(ok, description) ==
    IF ok
    THEN Ran(<< >>, 1, 0)
    ELSE IF Truthy(description)
    THEN Ran(<< ErrorAlert(description) >>, 0, 0)
    ELSE Ran(<< ErrorAlert(t("deleteProtocolConfig.genericError.description")) >>, 0, 0)

\* handleSubmit whose catch handler swallows the error.
handleSubmit_swallow(ok, description) == Ran(<< >>, 0, 0)

\* handleSubmit: the then and catch handlers of updateApplicationDetails
\* (the then handler's call of handleInboundConfigFormSubmit is in Settle).
handleSubmit(ok, description) ==
    IF ok
    THEN Ran(<< >>, 0, 0)
    ELSE IF Truthy(description)
    THEN Ran(<< ErrorAlert(description) >>, 0, 0)
    ELSE Ran(<< ErrorAlert(t("updateApplication.genericError.description")) >>, 0, 0)

\* handleInboundConfigFormSubmit with onUpdate and onProtocolUpdate called in
\* the then handler instead of the finally handler.
handleInboundConfigFormSubmit_refreshInThen(ok, description) ==
    IF ok
    THEN Ran(<< SuccessAlert(t("updateInboundProtocolConfig.success.description")) >>, 1, 1)
    ELSE IF Truthy(description)
    THEN Ran(<< ErrorAlert(description) >>, 0, 0)
    ELSE Ran(<< ErrorAlert(t("updateInboundProtocolConfig.genericError.description")) >>, 0, 0)

\* handleInboundConfigFormSubmit: the then, catch and finally handlers of
\* updateAuthProtocolConfig. A then handler that calls an absent
\* onAllowedOriginsUpdate throws a TypeError, which the catch handler takes.
handleInboundConfigFormSubmit(ok, description) ==
    IF ok
    THEN ( IF optionalCallbacks.onAllowedOriginsUpdate
           THEN Ran(<< SuccessAlert(t("updateInboundProtocolConfig.success.description")) >>,
                    1, 1)
           ELSE Ran(<< SuccessAlert(t("updateInboundProtocolConfig.success.description")),
                       ErrorAlert(t("updateInboundProtocolConfig.genericError.description")) >>,
                    1, 1) )
    ELSE IF Truthy(description)
    THEN Ran(<< ErrorAlert(description) >>, 1, 1)
    ELSE Ran(<< ErrorAlert(t("updateInboundProtocolConfig.genericError.description")) >>, 1, 1)

\* handleApplicationRegenerate: the then and catch handlers of
\* regenerateClientSecret. A then handler that calls an absent
\* onApplicationSecretRegenerate throws before onUpdate.
handleApplicationRegenerate(ok, description) ==
    IF ok
    THEN ( IF optionalCallbacks.onApplicationSecretRegenerate
           THEN Ran(<< SuccessAlert(t("regenerateSecret.success.description")) >>, 1, 0)
           ELSE Ran(<< SuccessAlert(t("regenerateSecret.success.description")),
                       ErrorAlert(t("regenerateSecret.genericError.description")) >>, 0, 0) )
    ELSE IF Truthy(description)
    THEN Ran(<< ErrorAlert(description) >>, 0, 0)
    ELSE Ran(<< ErrorAlert(t("regenerateSecret.genericError.description")) >>, 0, 0)

\* handleApplicationRevoke: the then and catch handlers of revokeClientSecret.
handleApplicationRevoke(ok, description) ==
    IF ok
    THEN Ran(<< SuccessAlert(t("revokeApplication.success.description")) >>, 1, 0)
    ELSE IF Truthy(description)
    THEN Ran(<< ErrorAlert(description) >>, 0, 0)
    ELSE Ran(<< ErrorAlert(t("revokeApplication.success.description")) >>, 0, 0)

\* The then and catch handlers of getAuthProtocolMetadata in the effect
\* (the then handler's dispatch of setAuthProtocolMeta is in Settle).
handleAuthProtocolMetadata(ok, description) ==
    IF ok
    THEN Ran(<< >>, 0, 0)
    ELSE IF Truthy(description)
    THEN Ran(<< ErrorAlert(description) >>, 0, 0)
    ELSE Ran(<< ErrorAlert(t("fetchProtocolMeta.genericError.description")) >>, 0, 0)

\* Whether the then handler of a flow throws: it calls a callback the props
\* interface declares optional without testing that it was supplied.
thenThrows(kind) ==
    \/ kind = "config" /\ ~ optionalCallbacks.onAllowedOriginsUpdate
    \/ kind = "regenerate" /\ ~ optionalCallbacks.onApplicationSecretRegenerate

\* How often the then and the catch handler of a settled call run: in
\* promise.then(onFulfilled).catch(onRejected) the catch handler also takes
\* what the then handler throws.
handlersRun(kind, ok) ==
    [ then |-> IF ok THEN 1 ELSE 0,
      catch |-> IF ~ ok \/ thenThrows(kind) THEN 1 ELSE 0 ]

\* The handlers of a call, by the flow that issued it.
RequestKinds == { "delete", "switch", "details", "config", "regenerate", "revoke", "meta" }
handlersOf(kind, ok, description) ==
    CASE kind = "delete" -> handleInboundConfigDelete(ok, description)
      [] kind = "switch" -> handleInboundConfigSwitch(ok, description)
      [] kind = "details" -> handleSubmit(ok, description)
      [] kind = "config" -> handleInboundConfigFormSubmit(ok, description)
      [] kind = "regenerate" -> handleApplicationRegenerate(ok, description)
      [] kind = "revoke" -> handleApplicationRevoke(ok, description)
      [] kind = "meta" -> handleAuthProtocolMetadata(ok, description)

\* The backend API a flow calls.
apiOf(kind) ==
    CASE kind \in { "delete", "switch" } -> "deleteProtocol"
      [] kind = "details" -> "updateApplicationDetails"
      [] kind = "config" -> "updateAuthProtocolConfig"
      [] kind = "regenerate" -> "regenerateClientSecret"
      [] kind = "revoke" -> "revokeClientSecret"
      [] kind = "meta" -> "getAuthProtocolMetadata"

(***************************************************************************)
(* The state machine.                                                      *)
(***************************************************************************)
\* The metadata types the effect fetches: every member of
\* SupportedAuthProtocolMetaTypes but WS-Federation and WS-Trust.
fetchedMetaTypes ==
    FilterSeq(SupportedAuthProtocolMetaTypes,
              Range(SupportedAuthProtocolMetaTypes) \ { WS_FEDERATION, WS_TRUST })

\* A backend request in flight. `arg` is the protocol (or metadata type) it
\* was called with; `submit` is the number of the updateApplicationDetails
\* request whose then handler issued it (0 when none did).
Request(id, kind, arg, submit) ==
    [ id |-> id, kind |-> kind, arg |-> arg, submit |-> submit ]

\* The history of a step that settled no request.
NoRun == Ran(<< >>, 0, 0)
Step(step, issued) ==
    [ step |-> step, issued |-> issued, kind |-> "none", arg |-> Undefined,
      ok |-> FALSE, description |-> Undefined, ran |-> NoRun ]

\* Requests the model may still issue: each updateApplicationDetails in
\* flight keeps one for the updateAuthProtocolConfig its then handler issues.
budget ==
    MaxRequests - (nextId - 1) - Cardinality({ r \in pending : r.kind = "details" })

\* metadataEffect without the hasOwnProperty check of the store.
metadataEffect_unconditional(meta) ==
    { Request(nextId + i - 1, "meta", fetchedMetaTypes[i], 0) :
        i \in 1..Len(fetchedMetaTypes) }

\* The requests the metadata effect issues when the store holds `meta`:
\* one per fetched type that is not an own property of the store's object.
metadataEffect(meta) ==
    LET missing == FilterSeq(fetchedMetaTypes, Range(fetchedMetaTypes) \ meta)
    IN  { Request(nextId + i - 1, "meta", missing[i], 0) : i \in 1..Len(missing) }

\* The state of the hooks before the component is mounted.
InitComponent ==
    /\ pc = "unmounted"
    /\ selectedProtocol = Undefined
    /\ inboundProtocolList = << >>
    /\ supportedProtocolList = UndefinedList
    /\ requestLoading = FALSE
    /\ pending = {}
    /\ nextId = 1
    /\ failedCalls = {}
    /\ counters = [ confirmations |-> 0, deleteCalls |-> 0,
                    metaIssued |-> [ p \in Range(fetchedMetaTypes) |-> 0 ] ]
    /\ submits = [ resolved |-> {}, rejected |-> {}, config |-> {} ]
    /\ lastStep = Step("init", {})

\* The confirmation modals are closed: no statement of the component opens
\* them (the only setShowProtocolSwitchModal(true) is commented out).
ModalsClosed ==
    /\ showDeleteConfirmationModal = FALSE
    /\ showProtocolSwitchModal = FALSE
    /\ protocolToDelete = Undefined

\* The inputs of the panel: props, configuration and store.
PanelTemplates ==
    { NoTemplate,
      [ defined |-> TRUE, id |-> CustomApplicationTemplateId,
        authenticationProtocol |-> Undefined ],
      [ defined |-> TRUE, id |-> OtherTemplateId, authenticationProtocol |-> OIDC ] }
PanelInboundLists == { << >>, << OIDC >>, << SAML, OIDC >> }
InitPanelInputs ==
    /\ enumOrder = << SAML, OIDC, WS_FEDERATION, WS_TRUST, CUSTOM >>
    /\ template \in PanelTemplates
    /\ extendedAccessConfig = FALSE
    /\ allowedProtocolTypes = {}
    /\ inboundProtocols \in PanelInboundLists
    /\ isLoading \in BOOLEAN
    /\ isInboundProtocolConfigRequestLoading = FALSE
    /\ allowMultipleProtocol \in BOOLEAN
    /\ optionalCallbacks \in
          { [ onAllowedOriginsUpdate |-> b, onApplicationSecretRegenerate |-> b ] :
              b \in BOOLEAN }
    /\ authProtocolMeta \in { { OIDC }, { OIDC, SAML } }

Init ==
    /\ InitPanelInputs
    /\ InitComponent
    /\ ModalsClosed
    /\ OthersNotRendered

\* The inputs of getSupportedProtocols and loadSupportedProtocols, drawn
\* from every template, allow-list and list of configured protocols.
InitProtocolInputs ==
    /\ enumOrder \in EnumOrders
    /\ template \in Templates
    /\ extendedAccessConfig \in BOOLEAN
    /\ allowedProtocolTypes \in AllowedProtocolTypeLists
    /\ inboundProtocols \in InboundLists(MaxInbound)
    /\ isLoading = FALSE
    /\ isInboundProtocolConfigRequestLoading = FALSE
    /\ allowMultipleProtocol = TRUE
    /\ optionalCallbacks = [ onAllowedOriginsUpdate |-> TRUE,
                             onApplicationSecretRegenerate |-> TRUE ]
    /\ authProtocolMeta = Range(fetchedMetaTypes)

InitProtocols ==
    /\ InitProtocolInputs
    /\ InitComponent
    /\ ModalsClosed
    /\ OthersNotRendered

\* The hooks' state after a state update and the render that follows it.
\* An unmounted component ignores state updates.
SetState(sel, reqLoading) ==
    IF pc # "mounted"
    THEN UNCHANGED << pc, selectedProtocol, supportedProtocolList, requestLoading >>
    ELSE LET r == render(sel, supportedProtocolList, inboundProtocols, reqLoading,
                         isLoading, isInboundProtocolConfigRequestLoading)
         IN  /\ pc' = r.pc
             /\ selectedProtocol' = r.selectedProtocol
             /\ supportedProtocolList' = r.supportedProtocolList
             /\ requestLoading' = reqLoading

\* The counters after the requests `issued` are sent.
Counted(issued, confirmed) ==
    [ confirmations |-> counters.confirmations + confirmed,
      deleteCalls |-> counters.deleteCalls
                        + Cardinality({ r \in issued : apiOf(r.kind) = "deleteProtocol" }),
      metaIssued |-> [ p \in Range(fetchedMetaTypes) |->
                         counters.metaIssued[p]
                           + Cardinality({ r \in issued : r.kind = "meta" /\ r.arg = p }) ] ]

\* Sends the requests `issued` in a step of the given kind.
Issue(step, issued, confirmed) ==
    /\ pending' = pending \cup issued
    /\ nextId' = nextId + Cardinality(issued)
    /\ counters' = Counted(issued, confirmed)
    /\ lastStep' = Step(step, issued)
    /\ UNCHANGED << failedCalls, submits, authProtocolMeta, otherComponents >>

modals == << showDeleteConfirmationModal, showProtocolSwitchModal, protocolToDelete >>
parentProps == << inboundProtocols, isLoading, isInboundProtocolConfigRequestLoading >>

\* The first render and the effects that run after it.
Mount ==
    /\ pc = "unmounted"
    /\ LET r == render(selectedProtocol, supportedProtocolList, inboundProtocols,
                       requestLoading, isLoading, isInboundProtocolConfigRequestLoading)
           issued == IF r.pc = "crashed" THEN {} ELSE metadataEffect(authProtocolMeta)
       IN  /\ pc' = r.pc
           /\ selectedProtocol' = r.selectedProtocol
           /\ supportedProtocolList' = r.supportedProtocolList
           /\ inboundProtocolList' =
                 IF r.pc # "crashed" /\ Len(inboundProtocols) > 0
                 THEN inboundProtocols ELSE inboundProtocolList
           /\ Issue("mount", issued, 0)
    /\ UNCHANGED << props, parentProps, modals, requestLoading >>

\* The parent passes a new inboundProtocols array: render, then both effects
\* that depend on [ inboundProtocols ].
InboundProtocolsChange(new) ==
    /\ pc = "mounted"
    /\ budget >= Cardinality(metadataEffect(authProtocolMeta))
    /\ LET r == render(selectedProtocol, supportedProtocolList, new,
                       requestLoading, isLoading, isInboundProtocolConfigRequestLoading)
           issued == IF r.pc = "crashed" THEN {} ELSE metadataEffect(authProtocolMeta)
       IN  /\ inboundProtocols' = new
           /\ pc' = r.pc
           /\ selectedProtocol' = r.selectedProtocol
           /\ supportedProtocolList' = r.supportedProtocolList
           /\ inboundProtocolList' =
                 IF r.pc # "crashed" /\ Len(new) > 0 THEN new ELSE inboundProtocolList
           /\ Issue("props", issued, 0)
    /\ UNCHANGED << props, isLoading, isInboundProtocolConfigRequestLoading, modals,
                    requestLoading >>

\* The parent changes isLoading or isInboundProtocolConfigRequestLoading.
LoadingChange(loading, configLoading) ==
    /\ pc = "mounted"
    /\ << loading, configLoading >> # << isLoading, isInboundProtocolConfigRequestLoading >>
    /\ isLoading' = loading
    /\ isInboundProtocolConfigRequestLoading' = configLoading
    /\ LET r == render(selectedProtocol, supportedProtocolList, inboundProtocols,
                       requestLoading, loading, configLoading)
       IN  /\ pc' = r.pc
           /\ selectedProtocol' = r.selectedProtocol
           /\ supportedProtocolList' = r.supportedProtocolList
    /\ Issue("props", {}, 0)
    /\ UNCHANGED << props, inboundProtocols, modals, requestLoading, inboundProtocolList >>

\* resolveInboundProtocolSettingsForm: the props of the InboundFormFactory it
\* renders for the selected protocol `sel`, given the readOnly prop and the
\* result of hasRequiredScopes for the update scope. The form of a protocol
\* outside SupportedAuthProtocolTypes has the type CUSTOM.
resolveInboundProtocolSettingsForm(sel, readOnly, hasRequiredScopes) ==
    IF sel = Undefined
    THEN [ rendered |-> FALSE, type |-> Undefined, readOnly |-> FALSE,
           onApplicationRegenerate |-> FALSE, onApplicationRevoke |-> FALSE ]
    ELSE IF sel \in SupportedAuthProtocolTypes
    THEN [ rendered |-> TRUE, type |-> sel,
           readOnly |-> readOnly \/ ~ hasRequiredScopes,
           onApplicationRegenerate |-> TRUE, onApplicationRevoke |-> TRUE ]
    ELSE [ rendered |-> TRUE, type |-> CUSTOM,
           readOnly |-> ~ hasRequiredScopes,
           onApplicationRegenerate |-> FALSE, onApplicationRevoke |-> FALSE ]

\* The settings form is on screen.
formRendered == currentView = "grid" /\ selectedProtocol # Undefined

\* A protocol button of the banner is clicked: setSelectedProtocol(protocol).
ClickProtocolButton(protocol) ==
    /\ formRendered
    /\ supportedProtocolList # UndefinedList
    /\ allowMultipleProtocol
    /\ protocol \in Range(supportedProtocolList)
    /\ SetState(protocol, requestLoading)
    /\ Issue("user", {}, 0)
    /\ UNCHANGED << props, parentProps, modals, inboundProtocolList >>

\* selectInitialProtocol, called by the landing picker.
selectInitialProtocol(protocol) ==
    /\ currentView = "landing"
    /\ protocol \in Range(getSupportedProtocols(Undefined).list)
    /\ SetState(protocol, requestLoading)
    /\ inboundProtocolList' = Append(inboundProtocolList, protocol)
    /\ Issue("user", {}, 0)
    /\ UNCHANGED << props, parentProps, modals >>

\* The form's onSubmit: handleSubmit up to the call it issues.
SubmitForm ==
    /\ formRendered
    /\ budget >= 2
    /\ SetState(selectedProtocol, TRUE)
    /\ Issue("user", { Request(nextId, "details", selectedProtocol, 0) }, 0)
    /\ UNCHANGED << props, parentProps, modals, inboundProtocolList >>

\* The form's onApplicationRegenerate: handleApplicationRegenerate up to the
\* call it issues. Only the form of an enum protocol is given the callback.
RegenerateSecret ==
    /\ formRendered
    /\ selectedProtocol \in SupportedAuthProtocolTypes
    /\ budget >= 1
    /\ Issue("user", { Request(nextId, "regenerate", Undefined, 0) }, 0)
    /\ UNCHANGED << props, parentProps, modals, inboundProtocolList, pc,
                    selectedProtocol, supportedProtocolList, requestLoading >>

\* The form's onApplicationRevoke: handleApplicationRevoke up to the call.
RevokeSecret ==
    /\ formRendered
    /\ selectedProtocol \in SupportedAuthProtocolTypes
    /\ budget >= 1
    /\ Issue("user", { Request(nextId, "revoke", Undefined, 0) }, 0)
    /\ UNCHANGED << props, parentProps, modals, inboundProtocolList, pc,
                    selectedProtocol, supportedProtocolList, requestLoading >>

\* DeleteModalPrimary without setShowDeleteConfirmationModal(false).
DeleteModalPrimary_staysOpen ==
    /\ currentView = "grid"
    /\ showDeleteConfirmationModal
    /\ budget >= 1
    /\ Issue("user", { Request(nextId, "delete", protocolToDelete, 0) }, 1)
    /\ UNCHANGED << props, parentProps, modals, inboundProtocolList, pc,
                    selectedProtocol, supportedProtocolList, requestLoading >>

\* The delete modal's onPrimaryActionClick.
DeleteModalPrimary ==
    /\ currentView = "grid"
    /\ showDeleteConfirmationModal
    /\ budget >= 1
    /\ showDeleteConfirmationModal' = FALSE
    /\ Issue("user", { Request(nextId, "delete", protocolToDelete, 0) }, 1)
    /\ UNCHANGED << props, parentProps, showProtocolSwitchModal, protocolToDelete,
                    inboundProtocolList, pc, selectedProtocol, supportedProtocolList,
                    requestLoading >>

\* The delete modal's onSecondaryActionClick and onClose.
DeleteModalDismiss ==
    /\ currentView = "grid"
    /\ showDeleteConfirmationModal
    /\ showDeleteConfirmationModal' = FALSE
    /\ Issue("user", {}, 0)
    /\ UNCHANGED << props, parentProps, showProtocolSwitchModal, protocolToDelete,
                    inboundProtocolList, pc, selectedProtocol, supportedProtocolList,
                    requestLoading >>

\* The switch modal's onPrimaryActionClick: handleInboundConfigSwitch up to
\* the call it issues, then setShowProtocolSwitchModal(false).
SwitchModalPrimary ==
    /\ currentView = "grid"
    /\ showProtocolSwitchModal
    /\ budget >= 1
    /\ showProtocolSwitchModal' = FALSE
    /\ SetState(selectedProtocol, TRUE)
    /\ Issue("user", { Request(nextId, "switch", selectedProtocol, 0) }, 1)
    /\ UNCHANGED << props, parentProps, showDeleteConfirmationModal, protocolToDelete,
                    inboundProtocolList >>

\* The switch modal's onSecondaryActionClick.
SwitchModalSecondary ==
    /\ currentView = "grid"
    /\ showProtocolSwitchModal
    /\ showProtocolSwitchModal' = FALSE
    /\ Issue("user", {}, 0)
    /\ UNCHANGED << props, parentProps, showDeleteConfirmationModal, protocolToDelete,
                    inboundProtocolList, pc, selectedProtocol, supportedProtocolList,
                    requestLoading >>

\* The switch modal's onClose: setShowDeleteConfirmationModal(false).
SwitchModalClose ==
    /\ currentView = "grid"
    /\ showProtocolSwitchModal
    /\ showDeleteConfirmationModal' = FALSE
    /\ Issue("user", {}, 0)
    /\ UNCHANGED << props, parentProps, showProtocolSwitchModal, protocolToDelete,
                    inboundProtocolList, pc, selectedProtocol, supportedProtocolList,
                    requestLoading >>

\* handleSubmit's then handler chained with the call it issues.
chainedRequests_inFinally(r, ok) ==
    IF r.kind = "details" THEN { Request(nextId, "config", r.arg, r.id) } ELSE {}

\* The requests the handlers of the settled request `r` issue: the then
\* handler of updateApplicationDetails calls handleInboundConfigFormSubmit
\* with the protocol that was selected when the form was submitted.
chainedRequests(r, ok) ==
    IF r.kind = "details" /\ ok
    THEN { Request(nextId, "config", r.arg, r.id) } ELSE {}

\* The key under which a call counts as "the same call".
callKey(r) == << apiOf(r.kind), r.arg >>

\* A request settles: the backend resolves it (ok) or rejects it with an
\* error carrying `description`; its then/catch/finally handlers run.
Settle(r, ok, description) ==
    /\ r \in pending
    /\ ok => description = Undefined
    /\ LET ran == handlersOf(r.kind, ok, description)
           chained == chainedRequests(r, ok)
       IN  /\ pending' = (pending \ { r }) \cup chained
           /\ nextId' = nextId + Cardinality(chained)
           /\ counters' = Counted(chained, 0)
           /\ lastStep' = [ step |-> "settle", issued |-> chained, kind |-> r.kind,
                            arg |-> r.arg, ok |-> ok, description |-> description,
                            ran |-> ran ]
           /\ submits' =
                 [ resolved |-> submits.resolved
                                   \cup (IF r.kind = "details" /\ ok THEN { r.id } ELSE {}),
                   rejected |-> submits.rejected
                                   \cup (IF r.kind = "details" /\ ~ ok THEN { r.id } ELSE {}),
                   config |-> submits.config \cup { c.submit : c \in chained } ]
    /\ failedCalls' = IF ok THEN failedCalls ELSE failedCalls \cup { callKey(r) }
    /\ authProtocolMeta' =
          IF r.kind = "meta" /\ ok THEN authProtocolMeta \cup { r.arg } ELSE authProtocolMeta
    /\ CASE r.kind = "switch" -> SetState(Undefined, FALSE)
         [] r.kind = "details" -> SetState(selectedProtocol, FALSE)
         [] OTHER -> SetState(selectedProtocol, requestLoading)
    /\ UNCHANGED << props, parentProps, modals, inboundProtocolList, otherComponents >>

\* The steps that mount the panel, issue backend requests and settle them.
NextRequests ==
    \/ Mount
    \/ \E new \in PanelInboundLists : InboundProtocolsChange(new)
    \/ \E protocol \in ProtocolNames : selectInitialProtocol(protocol)
    \/ SubmitForm
    \/ RegenerateSecret
    \/ RevokeSecret
    \/ \E r \in pending : \E ok \in BOOLEAN : \E d \in ErrorDescriptions : Settle(r, ok, d)

\* The steps of the panel whose confirmation modals stay closed.
Next ==
    \/ NextRequests
    \/ \E loading \in BOOLEAN : LoadingChange(loading, FALSE)
    \/ \E protocol \in ProtocolNames : ClickProtocolButton(protocol)

Spec == Init /\ [][Next]_vars

\* The panel with a confirmation modal on screen: the state of the hooks
\* showDeleteConfirmationModal, showProtocolSwitchModal and protocolToDelete
\* is an input, and the parent changes no prop but inboundProtocols.
InitModal ==
    /\ enumOrder = << SAML, OIDC, WS_FEDERATION, WS_TRUST, CUSTOM >>
    /\ template = [ defined |-> TRUE, id |-> CustomApplicationTemplateId,
                    authenticationProtocol |-> Undefined ]
    /\ extendedAccessConfig = FALSE
    /\ allowedProtocolTypes = {}
    /\ inboundProtocols = << OIDC >>
    /\ isLoading = FALSE
    /\ isInboundProtocolConfigRequestLoading = FALSE
    /\ allowMultipleProtocol \in BOOLEAN
    /\ optionalCallbacks \in
          { [ onAllowedOriginsUpdate |-> b, onApplicationSecretRegenerate |-> b ] :
              b \in BOOLEAN }
    /\ authProtocolMeta \in { { OIDC }, { OIDC, SAML } }
    /\ InitComponent
    /\ showDeleteConfirmationModal \in BOOLEAN
    /\ showProtocolSwitchModal \in BOOLEAN
    /\ protocolToDelete = IF showDeleteConfirmationModal THEN OIDC ELSE Undefined
    /\ OthersNotRendered

NextModal ==
    \/ NextRequests
    \/ DeleteModalPrimary
    \/ DeleteModalDismiss
    \/ SwitchModalPrimary
    \/ SwitchModalSecondary
    \/ SwitchModalClose

SpecModal == InitModal /\ [][NextModal]_vars

\* getSupportedProtocols and loadSupportedProtocols applied to every input.
NextProtocols == Mount

SpecProtocols == InitProtocols /\ [][NextProtocols]_vars

(***************************************************************************)
(* Properties of getSupportedProtocols and loadSupportedProtocols          *)
(* (checked under SpecProtocols).                                          *)
(***************************************************************************)
\* The position of `p` in the list `l` (0 when absent).
IndexOf(l, p) == IF p \in Range(l) THEN CHOOSE i \in 1..Len(l) : l[i] = p ELSE 0

\* The panel has rendered its grid, so loadSupportedProtocols has run.
Loaded == pc = "mounted" /\ supportedProtocolList # UndefinedList

\* C1: the list returned by getSupportedProtocols never contains WS-Trust or
\* custom, and never contains WS-Federation when extendedAccessConfig is
\* true, whatever the template, the allow-list and the filterProtocol.
C1_NoLegacyProtocol ==
    pc = "mounted" =>
        \A f \in ProtocolNames \cup { Undefined } :
            LET l == Range(getSupportedProtocols(f).list)
            IN  /\ WS_TRUST \notin l
                /\ CUSTOM \notin l
                /\ extendedAccessConfig => WS_FEDERATION \notin l

\* C2: with no configured inbound protocol and OIDC and SAML both supported,
\* the sorted list has OIDC before SAML and every protocol without a custom
\* order key after both.
C2_OidcBeforeSaml ==
    ( /\ Loaded
      /\ inboundProtocols = << >>
      /\ { OIDC, SAML } \subseteq Range(supportedProtocolList) ) =>
        LET l == supportedProtocolList
        IN  /\ IndexOf(l, OIDC) < IndexOf(l, SAML)
            /\ \A i \in 1..Len(l) :
                 l[i] \notin { OIDC, SAML } => i > IndexOf(l, SAML)

\* C2 witness: the enum lists SAML before OIDC and a third protocol is
\* supported; the sorted list is OIDC, SAML, WS-Federation.
C2_Witness ==
    /\ Loaded
    /\ inboundProtocols = << >>
    /\ enumOrder = << SAML, OIDC, WS_FEDERATION, WS_TRUST, CUSTOM >>
    /\ supportedProtocolList = << OIDC, SAML, WS_FEDERATION >>

\* C3 as stated: OIDC first when present, SAML second (first without OIDC),
\* the remaining protocols in the order they have in inboundProtocols.
C3_OidcFirstSamlSecond ==
    Loaded =>
        LET l == supportedProtocolList
            rest == { p \in Range(l) : p \notin { OIDC, SAML } }
        IN  /\ OIDC \in Range(l) => l[1] = OIDC
            /\ SAML \in Range(l) => l[IF OIDC \in Range(l) THEN 2 ELSE 1] = SAML
            /\ \A p, q \in rest \cap Range(inboundProtocols) :
                 IndexOf(inboundProtocols, p) < IndexOf(inboundProtocols, q)
                     => IndexOf(l, p) < IndexOf(l, q)

\* The rank the amended C3 gives a protocol: its index in inboundProtocols
\* when it is a configured member of the enum, else 0 for OIDC and 1 for
\* SAML, else none (-1).
C3_Rank(p) ==
    IF p \in SupportedAuthProtocolTypes /\ p \in Range(inboundProtocols)
    THEN IndexOf(inboundProtocols, p) - 1
    ELSE IF p = OIDC THEN 0 ELSE IF p = SAML THEN 1 ELSE -1

\* C3 amended: the candidate list holds the supported protocols by
\* ascending rank, protocols without rank last, protocols of equal rank in
\* the order getSupportedProtocols returned them.
C3_SortedByRank ==
    Loaded =>
        LET l == supportedProtocolList
            g == getSupportedProtocols(Undefined).list
        IN  /\ Len(l) = Len(g)
            /\ Range(l) = Range(g)
            /\ \A i, j \in 1..Len(l) :
                 i < j =>
                    LET a == C3_Rank(l[i])
                        b == C3_Rank(l[j])
                    IN  \/ a # -1 /\ (b = -1 \/ a < b)
                        \/ a = b /\ IndexOf(g, l[i]) < IndexOf(g, l[j])

\* C3 witness: SAML and OIDC are configured in that order, and SAML is first.
C3_Witness ==
    /\ Loaded
    /\ inboundProtocols = << SAML, OIDC >>
    /\ Len(supportedProtocolList) = 3
    /\ supportedProtocolList[1] = SAML
    /\ supportedProtocolList[2] = OIDC

(***************************************************************************)
(* Properties of the panel's backend calls.                                *)
(***************************************************************************)
\* The requests a step issues.
IssuedInStep == pending' \ pending

\* The last step settled a request of one of the given kinds.
SettledOneOf(kinds) == lastStep.step = "settle" /\ lastStep.kind \in kinds

\* C4: every deleteProtocol call is issued by the click of the primary
\* action of a confirmation modal that is on screen (the delete modal for
\* the delete flow, the switch modal for the switch flow), that click issues
\* exactly one call and hides the modal, and so the calls issued and the
\* confirmations given are always equal in number.
C4_DeleteOnlyOnConfirmation ==
    /\ [](counters.deleteCalls = counters.confirmations)
    /\ [][ \A r \in IssuedInStep :
             apiOf(r.kind) = "deleteProtocol" =>
                /\ lastStep'.step = "user"
                /\ currentView = "grid"
                /\ counters'.confirmations = counters.confirmations + 1
                /\ counters'.deleteCalls = counters.deleteCalls + 1
                /\ r.kind = "delete" =>
                      /\ showDeleteConfirmationModal
                      /\ ~ showDeleteConfirmationModal'
                      /\ r.arg = protocolToDelete
                /\ r.kind = "switch" =>
                      /\ showProtocolSwitchModal
                      /\ ~ showProtocolSwitchModal'
                      /\ r.arg = selectedProtocol ]_vars

\* C4 witness: both modals were confirmed; one call of each flow is in flight.
C4_Witness ==
    /\ counters.confirmations = 2
    /\ \E r \in pending : r.kind = "delete" /\ r.arg = OIDC
    /\ \E r \in pending : r.kind = "switch"
    /\ ~ showDeleteConfirmationModal
    /\ ~ showProtocolSwitchModal

\* The generic-error fallback description C5 expects of each backend call.
genericErrorOf(kind) ==
    CASE kind \in { "delete", "switch" } -> t("deleteProtocolConfig.genericError.description")
      [] kind = "details" -> t("updateApplication.genericError.description")
      [] kind = "config" -> t("updateInboundProtocolConfig.genericError.description")
      [] kind = "regenerate" -> t("regenerateSecret.genericError.description")
      [] kind = "revoke" -> t("revokeApplication.genericError.description")
      [] kind = "meta" -> t("fetchProtocolMeta.genericError.description")

\* C5: a failed call dispatches an ERROR alert whose description is the
\* error's description when it has one, and the call's generic-error
\* fallback string otherwise.
C5_ErrorDescription ==
    ( lastStep.step = "settle" /\ ~ lastStep.ok ) =>
        /\ lastStep.ran.alerts # << >>
        /\ \A i \in 1..Len(lastStep.ran.alerts) :
             LET alert == lastStep.ran.alerts[i]
             IN  /\ alert.level = "ERROR"
                 /\ alert.description =
                      IF Truthy(lastStep.description) THEN lastStep.description
                      ELSE genericErrorOf(lastStep.kind)

\* The kinds of call C6 names.
C6_Kinds == { "delete", "switch", "details", "config", "regenerate", "revoke" }

\* C6 as stated: once a call settles, onUpdate(appId) is invoked, whether the
\* call succeeded or failed.
C6_RefreshAlways ==
    SettledOneOf(C6_Kinds) => lastStep.ran.onUpdate >= 1

\* C6 amended: onUpdate(appId) is invoked once when updateAuthProtocolConfig
\* settles, succeeded or failed; when deleteProtocol (delete or switch flow)
\* or revokeClientSecret succeeded; when regenerateClientSecret succeeded and
\* onApplicationSecretRegenerate is supplied; and in no other case.
C6_RefreshWhen ==
    SettledOneOf(C6_Kinds) =>
        lastStep.ran.onUpdate =
            IF \/ lastStep.kind = "config"
               \/ lastStep.kind \in { "delete", "switch", "revoke" } /\ lastStep.ok
               \/ /\ lastStep.kind = "regenerate"
                  /\ lastStep.ok
                  /\ optionalCallbacks.onApplicationSecretRegenerate
            THEN 1 ELSE 0

\* C6 witness: a failed updateAuthProtocolConfig call invoked onUpdate.
C6_Witness ==
    /\ SettledOneOf({ "config" })
    /\ ~ lastStep.ok
    /\ lastStep.ran.onUpdate = 1

\* The last step settled a user-initiated operation: a delete, switch,
\* regenerate or revoke call, or a form submit (its updateApplicationDetails
\* call failed, or its updateAuthProtocolConfig call settled).
C7_OperationSettled ==
    \/ SettledOneOf({ "delete", "switch", "regenerate", "revoke", "config" })
    \/ SettledOneOf({ "details" }) /\ ~ lastStep.ok

\* An alert of the level that matches the outcome was dispatched.
C7_MatchingAlert ==
    \E i \in 1..Len(lastStep.ran.alerts) :
        lastStep.ran.alerts[i].level = IF lastStep.ok THEN "SUCCESS" ELSE "ERROR"

C8_AtMostOneFetch ==
    \A p \in Range(fetchedMetaTypes) : counters.metaIssued[p] <= 1

\* C8 amended: a getAuthProtocolMetadata request is issued only by the
\* effect (at mount or on a change of inboundProtocols), at most once per
\* type in one run of the effect, and never for a type the store holds.
C8_NoFetchOfCachedType ==
    [][ \A r \in IssuedInStep :
          r.kind = "meta" =>
             /\ lastStep'.step \in { "mount", "props" }
             /\ r.arg \notin authProtocolMeta
             /\ \A q \in IssuedInStep : q.kind = "meta" /\ q.arg = r.arg => q = r ]_vars

\* C8 witness: SAML was fetched once, its metadata reached the store, and a
\* later change of inboundProtocols issued no request.
C8_Witness ==
    /\ lastStep.step = "props"
    /\ lastStep.issued = {}
    /\ counters.metaIssued[SAML] = 1
    /\ SAML \in authProtocolMeta
    /\ inboundProtocols = << SAML, OIDC >>

\* C9: an updateAuthProtocolConfig request exists only for a submit whose
\* updateApplicationDetails request resolved; none is ever issued for a
\* submit whose updateApplicationDetails request was rejected; and the two
\* requests of one submit are never in flight together.
C9_ConfigAfterDetails ==
    /\ submits.config \subseteq submits.resolved
    /\ submits.config \cap submits.rejected = {}
    /\ \A r \in pending :
         r.kind = "config" =>
            /\ r.submit \in submits.resolved
            /\ ~ \E d \in pending : d.kind = "details" /\ d.id = r.submit

\* C9 witness: a submit's updateApplicationDetails resolved and its
\* updateAuthProtocolConfig is in flight.
C9_Witness ==
    \E r \in pending :
        /\ r.kind = "config"
        /\ r.submit \in submits.resolved
        /\ lastStep.kind = "details"

\* A failed call runs its catch handler and nothing else: one ERROR alert,
\* no request issued, no exception out of the chain.
C10_FailureEndsInCatch ==
    ( lastStep'.step = "settle" /\ ~ lastStep'.ok ) =>
        /\ IssuedInStep = {}
        /\ Len(lastStep'.ran.alerts) = 1
        /\ lastStep'.ran.alerts[1].level = "ERROR"
        /\ ~ lastStep'.ran.escaped

\* C10 as stated: a call that failed is issued again only by a user action
\* (a click, or the form submit that chains updateAuthProtocolConfig), and a
\* failure ends in the catch handler.
C10_NoReissueWithoutUser ==
    [][ /\ C10_FailureEndsInCatch
        /\ \A r \in IssuedInStep :
             callKey(r) \in failedCalls =>
                lastStep'.step = "user" \/ r.kind = "config" ]_vars

\* C10 amended: a call that failed is issued again only by a user action or,
\* for getAuthProtocolMetadata, by the effect when inboundProtocols changes;
\* and a failure ends in the catch handler.
C10_ReissueOnlyOnTrigger ==
    [][ /\ C10_FailureEndsInCatch
        /\ \A r \in IssuedInStep :
             callKey(r) \in failedCalls =>
                \/ lastStep'.step = "user"
                \/ r.kind = "config"
                \/ lastStep'.step = "props" /\ r.kind = "meta" ]_vars

\* C10 witness: the metadata request failed, and a change of inboundProtocols
\* issued it again.
C10_Witness ==
    /\ lastStep.step = "props"
    /\ \E r \in lastStep.issued : r.kind = "meta" /\ callKey(r) \in failedCalls

(***************************************************************************)
(* The field adapters of the form module (src/unnamed/part_000).           *)
(***************************************************************************)
\* JavaScript null.
Null == "null"

\* The value each adapter but the select and the copy adapter passes to its
\* widget: `meta.modified ? input.value : (childFieldProps.value ? ... )`.
resolvedValue ==
    IF field.modified THEN field.inputValue
    ELSE IF Truthy(field.value) THEN field.value
    ELSE IF Truthy(field.stored) THEN field.stored
    ELSE ""

\* The error prop computed from the flag `shown` of the field's meta:
\* `shown && meta.error !== "" ? meta.error : null`.
resolvedError(shown) ==
    IF shown /\ field.error # "" THEN field.error ELSE Null

\* The value and error props of the widget each adapter renders.
TextFieldAdapter ==
    [ value |-> resolvedValue, error |-> resolvedError(field.modified) ]
PasswordFieldAdapter ==
    [ value |-> resolvedValue, error |-> resolvedError(field.touched) ]
CopyFieldAdapter ==
    [ value |-> IF Truthy(field.value) THEN field.value
                ELSE IF Truthy(field.stored) THEN field.stored
                ELSE "",
      error |-> Undefined ]
TextAreaAdapter ==
    [ value |-> resolvedValue, error |-> resolvedError(field.modified) ]
SelectAdapter ==
    [ value |-> IF field.modified THEN field.inputValue
                ELSE IF Truthy(field.value) THEN field.value
                ELSE "",
      error |-> resolvedError(field.modified) ]

\* The props of a field that has just been registered: the explicit value
\* prop, the parent form's stored value for the field name, the input value,
\* and the validation error.
FieldValues == { Undefined, "", "explicit" }
StoredValues == { Undefined, "", "stored" }
InputValues == { "", "typed" }
FieldErrors == { Undefined, "", "invalid" }
InitField ==
    field \in [ value : FieldValues, stored : StoredValues, inputValue : InputValues,
                error : FieldErrors, modified : { FALSE }, touched : { FALSE } ]

\* The panel is not mounted.
panelVars == << props, parentProps, modals, pc, selectedProtocol, inboundProtocolList,
                supportedProtocolList, requestLoading, authProtocolMeta, pending,
                nextId, failedCalls, counters, submits, lastStep >>
PanelNotMounted ==
    /\ enumOrder = << SAML, OIDC, WS_FEDERATION, WS_TRUST, CUSTOM >>
    /\ template = NoTemplate
    /\ extendedAccessConfig = FALSE
    /\ allowedProtocolTypes = {}
    /\ inboundProtocols = << >>
    /\ isLoading = TRUE
    /\ isInboundProtocolConfigRequestLoading = FALSE
    /\ allowMultipleProtocol = FALSE
    /\ optionalCallbacks = [ onAllowedOriginsUpdate |-> FALSE,
                             onApplicationSecretRegenerate |-> FALSE ]
    /\ authProtocolMeta = {}
    /\ InitComponent
    /\ ModalsClosed

InitFields ==
    /\ InitField
    /\ form = NotRendered
    /\ PanelNotMounted

\* The widget's onChange: input.onChange(value); the form library marks the
\* field modified and validates the new value.
FieldChange(value, error) ==
    /\ field' = [ field EXCEPT !.inputValue = value, !.modified = TRUE,
                               !.error = error ]
    /\ UNCHANGED << panelVars, form >>

\* The widget's onBlur: input.onBlur(event); the form library marks the
\* field touched.
FieldBlur ==
    /\ ~ field.touched
    /\ field' = [ field EXCEPT !.touched = TRUE ]
    /\ UNCHANGED << panelVars, form >>

NextFields ==
    \/ \E value \in InputValues : \E error \in FieldErrors : FieldChange(value, error)
    \/ FieldBlur

SpecFields == InitFields /\ [][NextFields]_vars

(***************************************************************************)
(* Properties of the field adapters (checked under SpecFields).            *)
(***************************************************************************)
\* The value the precedence rule of the contract selects.
C11_ByPrecedence ==
    IF field.modified THEN field.inputValue
    ELSE IF Truthy(field.value) THEN field.value
    ELSE IF Truthy(field.stored) THEN field.stored
    ELSE ""

\* C11 as stated: the text, password, copy, textarea and select adapters all
\* display the edited input value when the field has been modified, otherwise
\* the explicit value prop when set, otherwise the parent form's stored value
\* when set, otherwise the empty string.
C11_SamePrecedence ==
    \A adapter \in { TextFieldAdapter, PasswordFieldAdapter, CopyFieldAdapter,
                     TextAreaAdapter, SelectAdapter } :
        adapter.value = C11_ByPrecedence

\* Whether an error prop makes the widget show an error.
C18_Shown(error) == error \notin { Null, Undefined, "" }

\* C18 as stated: the text, password, textarea and select adapters show the
\* validation error exactly when the field has been modified and its error
\* is non-empty.
C18_ErrorWhenModified ==
    \A adapter \in { TextFieldAdapter, PasswordFieldAdapter, TextAreaAdapter,
                     SelectAdapter } :
        C18_Shown(adapter.error) <=> ( field.modified /\ Truthy(field.error) )


(***************************************************************************)
(* The Facebook authenticator form (facebook-authenticator-form.tsx).      *)
(* A string is the sequence of its symbols: a symbol is a space or a word  *)
(* without spaces. An object is the sequence of its entries in the order   *)
(* Object.entries lists them.                                              *)
(***************************************************************************)
EmptyString == << >>
\* Strings of at most n symbols of the alphabet.
Strings(alphabet, n) == UNION { [ 1..k -> alphabet ] : k \in 0..n }

\* The index of a property key that is a canonical array index, else a
\* negative number.
ArrayIndex(key) ==
    CASE key = "1" -> 1
      [] key = "2" -> 2
      [] OTHER -> 0 - 1

\* Whether the object has an own property `key`, and the property's entry.
hasOwn(obj, key) == \E i \in 1..Len(obj) : obj[i].key = key
entryOf(obj, key) == obj[CHOOSE i \in 1..Len(obj) : obj[i].key = key]

\* The entries of `obj` whose keys are array indices below `index`.
entriesBelow(obj, index) ==
    { i \in 1..Len(obj) : ArrayIndex(obj[i].key) >= 0 /\ ArrayIndex(obj[i].key) < index }
\* The entries of `obj` whose keys are array indices.
indexEntries(obj) == { i \in 1..Len(obj) : ArrayIndex(obj[i].key) >= 0 }

\* { ...obj, [ entry.key ]: ... }: an existing property keeps its place; a
\* new property whose key is an array index is listed among the array
\* indices in ascending order, before every other key; any other new
\* property is listed last.
setProperty(obj, entry) ==
    IF hasOwn(obj, entry.key)
    THEN [ i \in 1..Len(obj) |-> IF obj[i].key = entry.key THEN entry ELSE obj[i] ]
    ELSE LET at == IF ArrayIndex(entry.key) >= 0
                   THEN Cardinality(entriesBelow(obj, ArrayIndex(entry.key))) + 1
                   ELSE Len(obj) + 1
         IN  SubSeq(obj, 1, at - 1) \o << entry >> \o SubSeq(obj, at, Len(obj))

\* A hook or prop that is undefined.
UndefinedObject == [ defined |-> FALSE, entries |-> << >> ]
Object(entries) == [ defined |-> TRUE, entries |-> entries ]

\* metadata.properties.find((meta) => meta.key === key).
findMeta(metadata, key) ==
    IF metadata.defined /\ hasOwn(metadata.properties, key)
    THEN [ defined |-> TRUE, isMandatory |-> entryOf(metadata.properties, key).isMandatory ]
    ELSE [ defined |-> FALSE, isMandatory |-> FALSE ]

RECURSIVE resolvedFormFields(_, _, _)
\* resolvedFormFields after the effect's map has visited the first n
\* properties of originalInitialValues.
resolvedFormFields(metadata, properties, n) ==
    IF n = 0 THEN << >>
    ELSE setProperty(resolvedFormFields(metadata, properties, n - 1),
                     [ key |-> properties[n].key,
                       meta |-> findMeta(metadata, properties[n].key),
                       value |-> properties[n].value ])

RECURSIVE resolvedInitialValues(_, _)
\* resolvedInitialValues after the first n properties.
resolvedInitialValues(properties, n) ==
    IF n = 0 THEN << >>
    ELSE setProperty(resolvedInitialValues(properties, n - 1),
                     [ key |-> properties[n].key, value |-> properties[n].value ])

\* getUpdatedConfigurations that returns the properties alone.
getUpdatedConfigurations_propertiesOnly(originalInitialValues, values) ==
    [ authenticatorId |-> EmptyString,
      properties |-> [ i \in 1..Len(values) |->
                         [ key |-> values[i].key, value |-> values[i].value ] ] ]

\* getUpdatedConfigurations(values): the entries of the form values as a
\* property list, in a copy of originalInitialValues.
getUpdatedConfigurations(originalInitialValues, values) ==
    [ originalInitialValues EXCEPT
        !.properties = [ i \in 1..Len(values) |->
                           [ key |-> values[i].key, value |-> values[i].value ] ] ]

\* FACEBOOK_SCOPE_DICTIONARY of IdentityProviderManagementConstants.
EMAIL == << "email" >>
PUBLIC_PROFILE == << "public_profile" >>

\* resolveScopeMetadata without the public-profile case.
resolveScopeMetadata_emailOnly(scope) ==
    IF scope = EMAIL
    THEN [ description |-> t("facebook.scopes.list.email.description"),
           displayName |-> EMAIL, icon |-> "envelope outline" ]
    ELSE [ description |-> "", displayName |-> scope, icon |-> "key" ]

\* resolveScopeMetadata(scope).
resolveScopeMetadata(scope) ==
    IF scope = EMAIL
    THEN [ description |-> t("facebook.scopes.list.email.description"),
           displayName |-> EMAIL, icon |-> "envelope outline" ]
    ELSE IF scope = PUBLIC_PROFILE
    THEN [ description |-> t("facebook.scopes.list.profile.description"),
           displayName |-> PUBLIC_PROFILE, icon |-> "user outline" ]
    ELSE [ description |-> "", displayName |-> scope, icon |-> "key" ]

RECURSIVE split(_)
\* string.split(" "): the substrings between single spaces.
split(string) ==
    IF string = EmptyString THEN << EmptyString >>
    ELSE LET rest == split(Tail(string))
         IN  IF Head(string) = " "
             THEN << EmptyString >> \o rest
             ELSE << << Head(string) >> \o rest[1] >> \o Tail(rest)

\* The scope entries the form renders: none unless formFields.scope.value is
\* a non-empty string; else one per element of value.split(" ").
scopeSection(formFields) ==
    IF /\ formFields.defined
       /\ hasOwn(formFields.entries, "scope")
       /\ entryOf(formFields.entries, "scope").value # EmptyString
    THEN LET scopes == split(entryOf(formFields.entries, "scope").value)
         IN  [ index \in 1..Len(scopes) |-> resolveScopeMetadata(scopes[index]) ]
    ELSE << >>

\* The inputs the form renders, and those of them the user can type into.
RenderedInputs == { "ClientId", "ClientSecret", "callbackUrl" }
EditableInputs == { "ClientId", "ClientSecret" }

\* The `required` prop of an input: formFields?.[name]?.meta?.isMandatory.
required(formFields, name) ==
    /\ formFields.defined
    /\ hasOwn(formFields.entries, name)
    /\ entryOf(formFields.entries, name).meta.defined
    /\ entryOf(formFields.entries, name).meta.isMandatory

\* The Form component's validation of required inputs: a required input
\* with no value blocks the submit.
formValid(formFields, values) ==
    \A name \in RenderedInputs :
        required(formFields, name) =>
            hasOwn(values, name) /\ entryOf(values, name).value # EmptyString

\* The inputs of the form: metadata and initial values.
DeclaredKeys == << "ClientId", "ClientSecret", "callbackUrl", "scope" >>
MandatoryKeys == { "ClientId", "scope" }
Metadatas ==
    { [ defined |-> FALSE, properties |-> << >> ] }
    \cup { [ defined |-> TRUE,
             properties |-> [ i \in 1..Len(DeclaredKeys) |->
                                [ key |-> DeclaredKeys[i],
                                  isMandatory |-> DeclaredKeys[i] \in mandatory ] ] ] :
             mandatory \in SUBSET MandatoryKeys }
PropertyKeys == { "ClientId", "scope", "2", "1" }
PropertyValues == { EmptyString, << "x" >> }
\* Property lists with distinct keys.
PropertyLists ==
    { l \in UNION { [ 1..k -> [ key : PropertyKeys, value : PropertyValues ] ] :
                      k \in 0..MaxProperties } :
        \A i, j \in 1..Len(l) : i # j => l[i].key # l[j].key }
ScopeAlphabet == { " ", "email", "public_profile", "x" }
ScopeStrings == Strings(ScopeAlphabet, MaxScopeLen)
ScopePropertyLists == { << [ key |-> "scope", value |-> scope ] >> : scope \in ScopeStrings }

\* The form before its first render, with the props it is given.
InitialForm(metadata, properties) ==
    [ metadata |-> metadata,
      originalInitialValues |->
          [ authenticatorId |-> << "FacebookAuthenticator" >>,
            properties |-> properties ],
      mounted |-> FALSE,
      formFields |-> UndefinedObject,
      initialValues |-> UndefinedObject,
      values |-> << >>,
      edited |-> FALSE,
      submitted |-> [ called |-> FALSE,
                      values |-> [ authenticatorId |-> EmptyString,
                                   properties |-> << >> ] ] ]

InitFormInputs ==
    \E metadata \in Metadatas : \E properties \in PropertyLists \cup ScopePropertyLists :
        form = InitialForm(metadata, properties)

InitForm ==
    /\ InitFormInputs
    /\ field = NotRendered
    /\ PanelNotMounted

\* The first render, the effect on [ originalInitialValues ] and the render
\* that follows: the Form takes the resolved initial values as its values.
FormMount ==
    /\ ~ form.mounted
    /\ LET properties == form.originalInitialValues.properties
           fields == resolvedFormFields(form.metadata, properties, Len(properties))
           initial == resolvedInitialValues(properties, Len(properties))
       IN  form' = IF properties = << >>
                   THEN [ form EXCEPT !.mounted = TRUE ]
                   ELSE [ form EXCEPT !.mounted = TRUE,
                                      !.formFields = Object(fields),
                                      !.initialValues = Object(initial),
                                      !.values = initial ]
    /\ UNCHANGED << panelVars, field >>

\* The user types `value` into the input `name`.
FormChange(name, value) ==
    /\ form.mounted
    /\ name \in EditableInputs
    /\ form' = [ form EXCEPT !.values = setProperty(@, [ key |-> name, value |-> value ]),
                             !.edited = TRUE ]
    /\ UNCHANGED << panelVars, field >>

\* The Form's onSubmit: onSubmit(getUpdatedConfigurations(values)).
FormSubmit ==
    /\ form.mounted
    /\ formValid(form.formFields, form.values)
    /\ form' = [ form EXCEPT !.submitted =
                    [ called |-> TRUE,
                      values |-> getUpdatedConfigurations(form.originalInitialValues,
                                                          form.values) ] ]
    /\ UNCHANGED << panelVars, field >>

TypedValues == { EmptyString, << "typed" >> }
NextForm ==
    \/ FormMount
    \/ \E name \in EditableInputs : \E value \in TypedValues : FormChange(name, value)
    \/ FormSubmit

SpecForm == InitForm /\ [][NextForm]_vars

\* The property lists the parent passes while the form is mounted.
LaterPropertyLists ==
    { << >>,
      << [ key |-> "ClientId", value |-> << "x" >> ] >>,
      << [ key |-> "scope", value |-> << "email" >> ] >>,
      << [ key |-> "ClientId", value |-> EmptyString ],
         [ key |-> "scope", value |-> << "x" >> ] >> }

InitFormProps ==
    /\ \E metadata \in Metadatas : \E properties \in LaterPropertyLists :
          form = InitialForm(metadata, properties)
    /\ field = NotRendered
    /\ PanelNotMounted

\* The parent passes a new initialValues object: render, then the effect on
\* [ originalInitialValues ], which returns early for an empty property
\* list and otherwise resolves the state anew with the current metadata.
FormInitialValuesChange(properties) ==
    /\ form.mounted
    /\ properties # form.originalInitialValues.properties
    /\ LET fields == resolvedFormFields(form.metadata, properties, Len(properties))
           initial == resolvedInitialValues(properties, Len(properties))
       IN  form' = IF properties = << >>
                   THEN [ form EXCEPT !.originalInitialValues.properties = properties ]
                   ELSE [ form EXCEPT !.originalInitialValues.properties = properties,
                                      !.formFields = Object(fields),
                                      !.initialValues = Object(initial),
                                      !.values = initial ]
    /\ UNCHANGED << panelVars, field >>

\* The parent passes new metadata: render; metadata is not a dependency of
\* the effect, which does not run.
FormMetadataChange(metadata) ==
    /\ form.mounted
    /\ metadata # form.metadata
    /\ form' = [ form EXCEPT !.metadata = metadata ]
    /\ UNCHANGED << panelVars, field >>

NextFormProps ==
    \/ FormMount
    \/ \E properties \in LaterPropertyLists : FormInitialValuesChange(properties)
    \/ \E metadata \in Metadatas : FormMetadataChange(metadata)

SpecFormProps == InitFormProps /\ [][NextFormProps]_vars


(***************************************************************************)
(* Properties of the Facebook authenticator form (checked under SpecForm). *)
(***************************************************************************)
\* The keys of an object or of a property list.
KeysOf(entries) == { entries[i].key : i \in 1..Len(entries) }

\* C12 as stated: the field map has exactly the keys the metadata declares,
\* each mapped to the value of the supplied property with that key, or to
\* the empty string when no property was supplied for it.
C12_FieldMapOfDeclaredKeys ==
    form.mounted =>
        LET supplied == form.originalInitialValues.properties
            declared == KeysOf(form.metadata.properties)
            fields == form.formFields.entries
        IN  /\ KeysOf(fields) = declared
            /\ \A key \in declared :
                  hasOwn(fields, key) =>
                      entryOf(fields, key).value =
                          IF hasOwn(supplied, key) THEN entryOf(supplied, key).value
                          ELSE EmptyString

\* The form was submitted without any edit.
C13_SubmittedUnedited == form.submitted.called /\ ~ form.edited

\* C13 as stated: for initial values whose properties have distinct keys, a
\* submit without any edit passes onSubmit a properties list with the same
\* keys, values and order, and every other field unchanged.
C13_RoundTrip ==
    C13_SubmittedUnedited => form.submitted.values = form.originalInitialValues

\* C13, amended: the same, for property keys none of which is an array index.
C13_RoundTripOfNames ==
    ( /\ C13_SubmittedUnedited
      /\ indexEntries(form.originalInitialValues.properties) = {} ) =>
        form.submitted.values = form.originalInitialValues

\* Several properties, in an order other than declared, came back unchanged.
C13_Witness ==
    /\ C13_SubmittedUnedited
    /\ form.originalInitialValues.properties =
          << [ key |-> "scope", value |-> << "x" >> ],
             [ key |-> "ClientId", value |-> << "x" >> ] >>
    /\ form.submitted.values = form.originalInitialValues

\* C15 as stated: onSubmit is never called with a property list that lacks a
\* key the metadata declares mandatory.
C15_MandatoryKeysSubmitted ==
    form.submitted.called =>
        \A i \in 1..Len(form.metadata.properties) :
            form.metadata.properties[i].isMandatory =>
                form.metadata.properties[i].key
                    \in KeysOf(form.submitted.values.properties)

RECURSIVE C19_Join(_)
\* The strings of a list joined by single spaces.
C19_Join(strings) ==
    IF Len(strings) = 1 THEN strings[1]
    ELSE strings[1] \o << " " >> \o C19_Join(Tail(strings))

\* The scope string the form was given.
C19_Scope == entryOf(form.originalInitialValues.properties, "scope").value

\* C19: for a non-empty scope string the form renders one entry per token of
\* the split on a single space, in order: the tokens contain no space and,
\* joined by single spaces, give the scope string; the email and the
\* public-profile token get their localized description, and every other
\* token, the empty one included, gets the empty description, the token as
\* display name and the key icon.
C19_ScopeEntries ==
    ( /\ form.mounted
      /\ hasOwn(form.originalInitialValues.properties, "scope")
      /\ C19_Scope # EmptyString ) =>
        LET entries == scopeSection(form.formFields)
            tokens == [ i \in 1..Len(entries) |-> entries[i].displayName ]
        IN  /\ Len(entries) >= 1
            /\ C19_Join(tokens) = C19_Scope
            /\ \A i \in 1..Len(entries) :
                  /\ \A j \in 1..Len(tokens[i]) : tokens[i][j] # " "
                  /\ entries[i].description =
                        IF tokens[i] = EMAIL
                        THEN t("facebook.scopes.list.email.description")
                        ELSE IF tokens[i] = PUBLIC_PROFILE
                        THEN t("facebook.scopes.list.profile.description")
                        ELSE ""
                  /\ tokens[i] \notin { EMAIL, PUBLIC_PROFILE } => entries[i].icon = "key"

\* "email  public_profile": two known scopes around an empty token.
C19_Witness ==
    /\ form.mounted
    /\ hasOwn(form.originalInitialValues.properties, "scope")
    /\ C19_Scope = << "email", " ", " " >>
    /\ Len(scopeSection(form.formFields)) = 3
    /\ scopeSection(form.formFields)[2] =
          [ description |-> "", displayName |-> EmptyString, icon |-> "key" ]


(***************************************************************************)
(* Further properties of the panel.                                        *)
(***************************************************************************)
\* C14 as stated (checked under Spec): a request that settles runs exactly
\* one of its success (then) and failure (catch) handlers, once, whatever
\* the props have become since it was issued.
C14_ExactlyOneHandler ==
    lastStep.step = "settle" =>
        handlersRun(lastStep.kind, lastStep.ok).then
            + handlersRun(lastStep.kind, lastStep.ok).catch = 1

\* The step is the confirmation of the protocol switch.
C16_Confirmed ==
    /\ showProtocolSwitchModal
    /\ ~ showProtocolSwitchModal'
    /\ counters'.confirmations = counters.confirmations + 1

\* C16 (checked under SpecModal): a confirmed switch issues exactly one
\* deleteProtocol call, for the protocol selected at confirmation time; when
\* it settles, succeeded or failed, requestLoading is false and the selection
\* is the one a render makes from a cleared selection; onUpdate(appId) is
\* called once when it succeeded and not at all when it failed.
C16_SwitchIssuesAndResets ==
    [][ /\ C16_Confirmed =>
              /\ Cardinality(lastStep'.issued) = 1
              /\ \A r \in lastStep'.issued :
                    /\ apiOf(r.kind) = "deleteProtocol"
                    /\ r.arg = selectedProtocol
                    /\ r \in pending' \ pending
              /\ counters'.deleteCalls = counters.deleteCalls + 1
        /\ ( lastStep'.step = "settle" /\ lastStep'.kind = "switch" ) =>
              /\ requestLoading' = FALSE
              /\ selectedProtocol' =
                    render(Undefined, supportedProtocolList, inboundProtocols, FALSE,
                           isLoading, isInboundProtocolConfigRequestLoading).selectedProtocol
              /\ lastStep'.ran.onUpdate = IF lastStep'.ok THEN 1 ELSE 0
      ]_vars

\* A failed switch of OIDC has settled: no refresh, the loader is gone, and
\* the selection was cleared and made anew (SAML, the first of the list).
C16_Witness ==
    /\ lastStep.step = "settle"
    /\ lastStep.kind = "switch"
    /\ ~ lastStep.ok
    /\ lastStep.arg = OIDC
    /\ lastStep.ran.onUpdate = 0
    /\ requestLoading = FALSE
    /\ selectedProtocol = SAML

\* The panel is loading.
C17_Loading == isLoading \/ requestLoading \/ isInboundProtocolConfigRequestLoading

\* The state in which the claim has the landing picker rendered.
C17_LandingState ==
    /\ ~ C17_Loading
    /\ selectedProtocol = Undefined
    /\ Len(inboundProtocols) = 0
    /\ ~ allowMultipleProtocol
    /\ Len(getSupportedProtocols(Undefined).list) # 1

\* C17 as stated (checked under Spec): once rendered, the panel shows the
\* landing picker exactly in the landing state; in every loading state it
\* shows the loader; in every other state it shows the grid, with the first
\* protocol of the sorted supported list selected if none was.
C17_LandingExactly ==
    /\ [] ( pc # "unmounted" =>
              /\ currentView = "landing" <=> C17_LandingState
              /\ C17_Loading => currentView = "loader"
              /\ ( ~ C17_Loading /\ ~ C17_LandingState ) =>
                    /\ currentView = "grid"
                    /\ getSupportedProtocols(Undefined).list # << >>
                          => selectedProtocol # Undefined )
    /\ [][ ( selectedProtocol = Undefined /\ selectedProtocol' # Undefined
             /\ lastStep'.step # "user" ) =>
               selectedProtocol' = sortedSupportedProtocols(inboundProtocols')[1] ]_vars

\* C17 for a panel whose render did not throw.
C17_LandingExactlyWhenMounted ==
    /\ [] ( pc = "mounted" =>
              /\ currentView = "landing" <=> C17_LandingState
              /\ C17_Loading => currentView = "loader"
              /\ ( ~ C17_Loading /\ ~ C17_LandingState ) =>
                    /\ currentView = "grid"
                    /\ getSupportedProtocols(Undefined).list # << >>
                          => selectedProtocol # Undefined )
    /\ [][ ( selectedProtocol = Undefined /\ selectedProtocol' # Undefined
             /\ lastStep'.step # "user" ) =>
               selectedProtocol' = sortedSupportedProtocols(inboundProtocols')[1] ]_vars

\* The calls C20 names.
C20_Apis == { "updateAuthProtocolConfig", "regenerateClientSecret",
              "revokeClientSecret", "deleteProtocol" }

\* C20 as stated (checked under Spec): a call of one of these APIs that
\* succeeded dispatched exactly one alert, a SUCCESS alert, whether or not
\* the optional callbacks were supplied.
C20_SuccessAlertOnly ==
    ( /\ lastStep.step = "settle"
      /\ lastStep.ok
      /\ apiOf(lastStep.kind) \in C20_Apis ) =>
        /\ Len(lastStep.ran.alerts) = 1
        /\ lastStep.ran.alerts[1].level = "SUCCESS"


(***************************************************************************)
(* Properties the panel is expected to have.                               *)
(***************************************************************************)
\* C21 as stated (checked under SpecProtocols): when exactly one inbound
\* protocol is configured and it is in the supported set, the protocol that
\* loadSupportedProtocols selects for a panel without selection is the
\* configured one.
C21_ConfiguredProtocolSelected ==
    ( /\ Loaded
      /\ lastStep.step = "mount"
      /\ Len(inboundProtocols) = 1
      /\ inboundProtocols[1] \in Range(getSupportedProtocols(Undefined).list) ) =>
        selectedProtocol = inboundProtocols[1]


\* The requests in flight that a form submit started.
C22_SubmitRequests == { r \in pending : r.kind \in { "details", "config" } }

\* C22 as stated (checked under Spec): requestLoading is true as long as an
\* updateApplicationDetails request or the updateAuthProtocolConfig request
\* chained to it is in flight, so at most one updateAuthProtocolConfig
\* request is in flight at any time.
C22_LoadingWhileSubmitInFlight ==
    pc = "mounted" =>
        /\ C22_SubmitRequests # {} => requestLoading
        /\ Cardinality({ r \in pending : r.kind = "config" }) <= 1


\* The step dismisses a confirmation modal: a user action on the grid with a
\* modal on screen that confirms nothing and submits nothing.
C23_Dismissed ==
    /\ currentView = "grid"
    /\ showDeleteConfirmationModal \/ showProtocolSwitchModal
    /\ lastStep'.step = "user"
    /\ lastStep'.issued = {}
    /\ counters'.confirmations = counters.confirmations

C24_ListFollowsProp ==
    [][ ( inboundProtocols' # inboundProtocols /\ pc' = "mounted" ) =>
            inboundProtocolList' = inboundProtocols' ]_vars


\* C25 as stated (checked under Spec): whenever the grid is rendered,
\* supportedProtocolList is the filtered and sorted list computed from the
\* current template, extendedAccessConfig and inboundProtocols, and the
\* selected protocol, when defined, is a member of it.
C25_ListIsCurrent ==
    currentView = "grid" =>
        /\ supportedProtocolList = sortedSupportedProtocols(inboundProtocols)
        /\ selectedProtocol # Undefined =>
              selectedProtocol \in Range(supportedProtocolList)


\* C26 as stated (checked under SpecProtocols): for every value of the
\* readOnly prop and of the update-scope check, the settings form of the
\* selected protocol, in the enum or not, is read-only when readOnly is
\* true, and whenever readOnly is true or the update scope is lacking.
C26_ReadOnlyForm ==
    \A readOnly, hasRequiredScopes \in BOOLEAN :
        ( Loaded /\ selectedProtocol # Undefined ) =>
            LET settingsForm ==
                    resolveInboundProtocolSettingsForm(selectedProtocol, readOnly,
                                                       hasRequiredScopes)
            IN  /\ settingsForm.rendered
                /\ ( readOnly \/ ~ hasRequiredScopes ) => settingsForm.readOnly


\* C27 as stated (checked under SpecFormProps): after every change of the
\* initialValues or metadata props the state reflects the current props:
\* for an empty property list it holds no values, and otherwise formFields
\* and initialValues are those resolved from the current property list,
\* each field's meta being the entry of the current metadata.
C27_StateReflectsProps ==
    form.mounted =>
        LET properties == form.originalInitialValues.properties
        IN  IF properties = << >>
            THEN form.formFields.entries = << >> /\ form.initialValues.entries = << >>
            ELSE /\ form.formFields.entries =
                      resolvedFormFields(form.metadata, properties, Len(properties))
                 /\ form.initialValues.entries =
                      resolvedInitialValues(properties, Len(properties))


\* C28 as stated (checked under SpecProtocols): getSupportedProtocols
\* returns a list without raising an error for every combination of props,
\* a missing template included, so the first render leaves the panel
\* mounted.
C28_RenderNeverThrows ==
    pc # "unmounted" =>
        /\ pc = "mounted"
        /\ \A filterProtocol \in ProtocolNames \cup { Undefined } :
              ~ getSupportedProtocols(filterProtocol).threw


==========================================================================
